---- MODULE Spec2Model ----
(***************************************************************************)
(* timeSystemLib.py: the SCons tool module of the timeSystem package.      *)
(*                                                                         *)
(*   def generate(env, **kw):                                              *)
(*       if not kw.get('depsOnly',0):                                      *)
(*           env.Tool('addLibrary', library = ['timeSystem'])              *)
(*       env.Tool('st_facilitiesLib')                                      *)
(*       env.Tool('st_streamLib')                                          *)
(*       env.Tool('tipLib')                                                *)
(*       env.Tool('st_appLib')                                             *)
(*       env.Tool('addLibrary', library = env['cfitsioLibs'])              *)
(*                                                                         *)
(*   def exists(env):                                                      *)
(*       return 1                                                          *)
(*                                                                         *)
(* The model runs generate one statement per step against an environment   *)
(* that records every Tool call it is handed, and keeps the outcome of the *)
(* previous invocation so that two invocations can be compared.            *)
(***************************************************************************)
EXTENDS Integers, Sequences, FiniteSets, TLC

VARIABLES
    pc,          \* "idle", the statement of generate about to run, "returned" or "raised"
    kw,          \* the keyword options of the current (or last) invocation of generate
    cfg,         \* the configuration mapping of the env passed to that invocation
    failing,     \* the Tool calls this environment answers by raising
    trace,       \* the Tool calls generate has issued in this invocation, in order
    registered,  \* those of them the environment accepted (the call returned)
    exc,         \* the exception that ended the invocation, and the statement raising it
    result,      \* what the latest completed call handed back to the orchestrator
    prev         \* the inputs and outcome of the invocation before this one

vars == <<pc, kw, cfg, failing, trace, registered, exc, result, prev>>

(***************************************************************************)
(* Bounds of the model.                                                    *)
(***************************************************************************)
\* longest library list bound to cfitsioLibs
MaxLibs == 1
\* most Tool calls one environment answers by raising
MaxFailing == 1

(***************************************************************************)
(* Python values an option can carry, by type, with n the number (int,     *)
(* bool) or the length (str).                                              *)
(***************************************************************************)
PyNone == [type |-> "NoneType", n |-> 0]
PyInt(i) == [type |-> "int", n |-> i]
PyBool(b) == [type |-> "bool", n |-> IF b THEN 1 ELSE 0]
PyStr(len) == [type |-> "str", n |-> len]

\* a truth test written as "is not 0": None would count as set
TruthyNoneSet(v) == IF v.type = "NoneType" THEN TRUE ELSE v.n # 0

\* bool(v): None is false, a number is true when non-zero, a string when non-empty
Truthy(v) == IF v.type = "NoneType" THEN FALSE ELSE v.n # 0

\* d.get(key, default)
Get(d, key, default) == IF key \in DOMAIN d THEN d[key] ELSE default

\* the values tried for depsOnly: 0, 1, False, True, None, '' and a one-character string
OptionValues ==
    {PyNone, PyInt(0), PyInt(1), PyBool(FALSE), PyBool(TRUE), PyStr(0), PyStr(1)}

\* the options a caller passes: depsOnly, and one generate does not know
OptionNames == {"depsOnly", "incsOnly"}

KwArgs ==
    {k \in UNION {[D -> OptionValues] : D \in SUBSET OptionNames} :
        "incsOnly" \in DOMAIN k => k["incsOnly"] = PyInt(1)}

(***************************************************************************)
(* The environment: its configuration mapping and its Tool calls.          *)
(***************************************************************************)
LibNames == {"cfitsio", "timeSystem"}

LibLists == UNION {[1..n -> LibNames] : n \in 0..MaxLibs}

\* env's mapping, with cfitsioLibs bound to a list of library names or not bound
Configs == {<<>>} \cup {[cfitsioLibs |-> L] : L \in LibLists}

\* env.Tool(name)
ToolCall(name) == [tool |-> name, library |-> <<>>]

\* env.Tool('addLibrary', library = L)
AddLibrary(L) == [tool |-> "addLibrary", library |-> <<L>>]

DepNames == {"st_facilitiesLib", "st_streamLib", "tipLib", "st_appLib"}

Calls == {ToolCall(n) : n \in DepNames} \cup {AddLibrary(L) : L \in LibLists}

NoExc == [type |-> "none", at |-> "none"]

NoResult == [op |-> "none", value |-> PyNone]

NoPrev ==
    [called |-> FALSE, kw |-> <<>>, cfg |-> <<>>, trace |-> <<>>,
     registered |-> <<>>, exc |-> NoExc]

Finished == pc \in {"returned", "raised"}

(***************************************************************************)
(* One env.Tool(...) statement at `here`: the call is issued; when the     *)
(* environment raises, the exception leaves generate, otherwise control    *)
(* goes on to `next`.                                                      *)
(***************************************************************************)
Tool(here, call, next) ==
    /\ pc = here
    /\ trace' = Append(trace, call)
    /\ IF call \in failing
         THEN /\ pc' = "raised"
              /\ exc' = [type |-> "ToolError", at |-> here]
              /\ registered' = registered
         ELSE /\ pc' = next
              /\ exc' = exc
              /\ registered' = Append(registered, call)
    /\ UNCHANGED <<kw, cfg, failing, prev>>

\* the orchestrator calls generate(env, **k) with an env whose mapping is c
Generate(k, c) ==
    /\ pc \in {"idle", "returned", "raised"}
    /\ prev' = IF pc = "idle"
                 THEN prev
                 ELSE [called |-> TRUE, kw |-> kw, cfg |-> cfg, trace |-> trace,
                       registered |-> registered, exc |-> exc]
    /\ kw' = k
    /\ cfg' = c
    /\ pc' = "line3"
    /\ trace' = <<>>
    /\ registered' = <<>>
    /\ exc' = NoExc
    /\ result' = NoResult
    /\ UNCHANGED failing

\* the test without its "not"
Line3Inverted ==
    /\ pc = "line3"
    /\ pc' = IF Truthy(Get(kw, "depsOnly", PyInt(0))) THEN "line4" ELSE "line5"
    /\ UNCHANGED <<kw, cfg, failing, trace, registered, exc, result, prev>>

\* the lookup of env['cfitsioLibs'] hoisted above the registrations
Line3Hoisted ==
    /\ pc = "line3"
    /\ IF "cfitsioLibs" \notin DOMAIN cfg
         THEN /\ pc' = "raised"
              /\ exc' = [type |-> "KeyError", at |-> "line3"]
         ELSE /\ pc' = IF ~Truthy(Get(kw, "depsOnly", PyInt(0))) THEN "line4" ELSE "line5"
              /\ exc' = exc
    /\ UNCHANGED <<kw, cfg, failing, trace, registered, result, prev>>

\* a test that any option passed switches, not depsOnly alone
Line3AnyOption ==
    /\ pc = "line3"
    /\ pc' = IF \A o \in DOMAIN kw : ~Truthy(kw[o]) THEN "line4" ELSE "line5"
    /\ UNCHANGED <<kw, cfg, failing, trace, registered, exc, result, prev>>

\* if not kw.get('depsOnly',0):
Line3 ==
    /\ pc = "line3"
    /\ pc' = IF ~Truthy(Get(kw, "depsOnly", PyInt(0))) THEN "line4" ELSE "line5"
    /\ UNCHANGED <<kw, cfg, failing, trace, registered, exc, result, prev>>

\* a module that remembers having registered its library and does not repeat it
Line4Once ==
    /\ IF prev.called /\ \E i \in DOMAIN prev.registered :
                            prev.registered[i] = AddLibrary(<<"timeSystem">>)
         THEN /\ pc = "line4"
              /\ pc' = "line5"
              /\ UNCHANGED <<kw, cfg, failing, trace, registered, exc, prev>>
         ELSE Tool("line4", AddLibrary(<<"timeSystem">>), "line5")
    /\ UNCHANGED result

\* env.Tool('addLibrary', library = ['timeSystem'])
Line4 ==
    /\ Tool("line4", AddLibrary(<<"timeSystem">>), "line5")
    /\ UNCHANGED result

\* env.Tool('st_facilitiesLib')
Line5 ==
    /\ Tool("line5", ToolCall("st_facilitiesLib"), "line6")
    /\ UNCHANGED result

\* the stream and toolkit registrations written in the other order
Line6Swapped ==
    /\ Tool("line6", ToolCall("tipLib"), "line7")
    /\ UNCHANGED result

\* env.Tool('st_streamLib')
Line6 ==
    /\ Tool("line6", ToolCall("st_streamLib"), "line7")
    /\ UNCHANGED result

\* the toolkit registration left out
Line7Skipped ==
    /\ pc = "line7"
    /\ pc' = "line8"
    /\ UNCHANGED <<kw, cfg, failing, trace, registered, exc, result, prev>>

\* env.Tool('tipLib')
Line7 ==
    /\ Tool("line7", ToolCall("tipLib"), "line8")
    /\ UNCHANGED result

\* env.Tool('st_appLib')
Line8 ==
    /\ Tool("line8", ToolCall("st_appLib"), "line9")
    /\ UNCHANGED result

\* the third-party list written into the module instead of read from env
Line9Hardcoded ==
    /\ Tool("line9", AddLibrary(<<"cfitsio">>), "returned")
    /\ result' = IF pc' = "returned"
                   THEN [op |-> "generate", value |-> PyNone]
                   ELSE result

\* env.get('cfitsioLibs', []): a missing key registers an empty list
Line9Default ==
    /\ Tool("line9", AddLibrary(Get(cfg, "cfitsioLibs", <<>>)), "returned")
    /\ result' = IF pc' = "returned"
                   THEN [op |-> "generate", value |-> PyNone]
                   ELSE result

\* env.Tool('addLibrary', library = env['cfitsioLibs']): the argument is
\* evaluated before the call, and a mapping without the key raises KeyError;
\* after the call generate falls off its end and returns None
Line9 ==
    /\ pc = "line9"
    /\ IF "cfitsioLibs" \notin DOMAIN cfg
         THEN /\ pc' = "raised"
              /\ exc' = [type |-> "KeyError", at |-> "line9"]
              /\ UNCHANGED <<kw, cfg, failing, trace, registered, prev>>
         ELSE Tool("line9", AddLibrary(cfg["cfitsioLibs"]), "returned")
    /\ result' = IF pc' = "returned"
                   THEN [op |-> "generate", value |-> PyNone]
                   ELSE result

\* an exists that reports the tool available only when cfitsioLibs is configured
ExistsIfConfigured ==
    /\ pc \in {"idle", "returned", "raised"}
    /\ result' = [op |-> "exists",
                  value |-> PyInt(IF "cfitsioLibs" \in DOMAIN cfg THEN 1 ELSE 0)]
    /\ UNCHANGED <<pc, kw, cfg, failing, trace, registered, exc, prev>>

\* the orchestrator calls exists(env) on the environment as it stands: return 1
Exists ==
    /\ pc \in {"idle", "returned", "raised"}
    /\ result' = [op |-> "exists", value |-> PyInt(1)]
    /\ UNCHANGED <<pc, kw, cfg, failing, trace, registered, exc, prev>>

\* before the first call, on an environment whose Tool calls all return
Init ==
    /\ pc = "idle"
    /\ kw = <<>>
    /\ cfg \in Configs
    /\ failing = {}
    /\ trace = <<>>
    /\ registered = <<>>
    /\ exc = NoExc
    /\ result = NoResult
    /\ prev = NoPrev

\* the same, on an environment that answers some Tool calls by raising
InitFail ==
    /\ pc = "idle"
    /\ kw = <<>>
    /\ cfg \in Configs
    /\ failing \in {F \in SUBSET Calls : Cardinality(F) <= MaxFailing}
    /\ trace = <<>>
    /\ registered = <<>>
    /\ exc = NoExc
    /\ result = NoResult
    /\ prev = NoPrev

Next ==
    \/ \E k \in KwArgs, c \in Configs : Generate(k, c)
    \/ Line3
    \/ Line4
    \/ Line5
    \/ Line6
    \/ Line7
    \/ Line8
    \/ Line9
    \/ Exists

\* one invocation of generate, with exists called before or after it
NextOnce ==
    \/ \E k \in KwArgs, c \in Configs : pc = "idle" /\ Generate(k, c)
    \/ Line3
    \/ Line4
    \/ Line5
    \/ Line6
    \/ Line7
    \/ Line8
    \/ Line9
    \/ Exists

\* generate and exists called any number of times, every Tool call returning
Spec == Init /\ [][Next]_vars

\* one invocation on an environment in which a Tool call may raise
SpecFail == InitFail /\ [][NextOnce]_vars

(***************************************************************************)
(* What the properties speak of, written out from the text of the          *)
(* properties and not from the definitions above.                          *)
(***************************************************************************)
\* addLibrary with library = ['timeSystem']
OwnLibrary == [tool |-> "addLibrary", library |-> << <<"timeSystem">> >>]

\* the four fixed registrations, in their order
FixedDeps ==
    << [tool |-> "st_facilitiesLib", library |-> <<>>],
       [tool |-> "st_streamLib", library |-> <<>>],
       [tool |-> "tipLib", library |-> <<>>],
       [tool |-> "st_appLib", library |-> <<>>] >>

\* addLibrary with library = L
ThirdParty(L) == [tool |-> "addLibrary", library |-> <<L>>]

\* depsOnly missing, 0, False, None or ''
FalsyIn(k) ==
    \/ "depsOnly" \notin DOMAIN k
    \/ k["depsOnly"] \in {[type |-> "int", n |-> 0], [type |-> "bool", n |-> 0],
                          [type |-> "NoneType", n |-> 0], [type |-> "str", n |-> 0]}

DepsOnlyFalsy == FalsyIn(kw)

\* depsOnly 1, True or a non-empty string
DepsOnlyTruthy ==
    /\ "depsOnly" \in DOMAIN kw
    /\ kw["depsOnly"] \in {[type |-> "int", n |-> 1], [type |-> "bool", n |-> 1],
                           [type |-> "str", n |-> 1]}

\* cfitsioLibs is a key of env
Bound == "cfitsioLibs" \in DOMAIN cfg

\* cfitsioLibs is bound to ['timeSystem'], the module's own library list
BoundToOwn == Bound /\ cfg["cfitsioLibs"] = <<"timeSystem">>

Count(s, c) == Cardinality({i \in DOMAIN s : s[i] = c})

\* the registrations in s other than addLibrary
DepCalls(s) == SelectSeq(s, LAMBDA c : c.tool # "addLibrary")

IsPrefix(s, t) == Len(s) <= Len(t) /\ SubSeq(t, 1, Len(s)) = s

\* the calls that precede the third-party registration
ExpectedHead == (IF DepsOnlyFalsy THEN <<OwnLibrary>> ELSE <<>>) \o FixedDeps

\* a Tool call raised before the last fixed dependency was reached
RaisedBeforeLastDep ==
    exc.type = "ToolError" /\ exc.at \in {"line4", "line5", "line6", "line7"}

\* a Tool call raised before the third-party registration was reached
RaisedBeforeThirdParty == exc.type = "ToolError" /\ exc.at # "line9"

C2_AnyBinding == (Finished /\ DepsOnlyFalsy) => Count(trace, OwnLibrary) = 1

\* C2, amended: with depsOnly absent or falsy, addLibrary(['timeSystem']) is
\* issued exactly once, whatever cfitsioLibs is bound to other than
\* ['timeSystem'] itself; with that binding an invocation that returns has
\* issued it twice.
C2_OwnLibraryOnce ==
    (Finished /\ DepsOnlyFalsy) =>
        /\ ~BoundToOwn => Count(trace, OwnLibrary) = 1
        /\ (BoundToOwn /\ pc = "returned") => Count(trace, OwnLibrary) = 2

\* depsOnly = None, and the library registered once beside ['cfitsio']
C2_Witness ==
    /\ pc = "returned"
    /\ kw = [depsOnly |-> [type |-> "NoneType", n |-> 0]]
    /\ cfg = [cfitsioLibs |-> <<"cfitsio">>]
    /\ Count(trace, OwnLibrary) = 1

(***************************************************************************)
(* C3                                                                      *)
(***************************************************************************)
\* C3 as stated: with depsOnly truthy, no addLibrary(['timeSystem']) is
\* issued, whatever cfitsioLibs is bound to, and the dependencies still are.
C3_AnyBinding ==
    (Finished /\ DepsOnlyTruthy) =>
        Count(trace, OwnLibrary) = 0 /\ DepCalls(trace) = FixedDeps

\* C3, amended: with depsOnly truthy, no addLibrary(['timeSystem']) is issued
\* whatever cfitsioLibs is bound to other than ['timeSystem'] itself (with
\* that binding the one such call is the third-party registration, the last
\* call), and the dependency registrations are still issued (all four,
\* unless a Tool call raises before the last of them).
C3_NoOwnLibrary ==
    (Finished /\ DepsOnlyTruthy) =>
        /\ ~RaisedBeforeLastDep => DepCalls(trace) = FixedDeps
        /\ ~BoundToOwn => Count(trace, OwnLibrary) = 0
        /\ (BoundToOwn /\ ~RaisedBeforeThirdParty) =>
              /\ Count(trace, OwnLibrary) = 1
              /\ trace[Len(trace)] = OwnLibrary

\* depsOnly = True: the dependencies and ['cfitsio'], not the library
C3_Witness ==
    /\ pc = "returned"
    /\ kw = [depsOnly |-> [type |-> "bool", n |-> 1]]
    /\ cfg = [cfitsioLibs |-> <<"cfitsio">>]
    /\ Count(trace, OwnLibrary) = 0
    /\ Len(trace) = 5

(***************************************************************************)
(* C4                                                                      *)
(***************************************************************************)
\* C4 as stated: whatever the options and the environment, one without the
\* cfitsioLibs key included, a finished invocation has issued exactly one
\* further addLibrary call, carrying the value bound to cfitsioLibs.
C4_AnyEnvironment ==
    Finished =>
        /\ Bound
        /\ Len(trace) = Len(ExpectedHead) + 1
        /\ trace[Len(trace)] = ThirdParty(cfg["cfitsioLibs"])

\* C4, amended: when env binds cfitsioLibs and no earlier Tool call raises,
\* exactly one further addLibrary call is issued, carrying the value bound
\* to cfitsioLibs; when the key is not bound, or an earlier call raises,
\* no further call is issued.
C4_ThirdPartyOnce ==
    Finished =>
        IF Bound /\ ~RaisedBeforeThirdParty
          THEN /\ Len(trace) = Len(ExpectedHead) + 1
               /\ SubSeq(trace, 1, Len(ExpectedHead)) = ExpectedHead
               /\ trace[Len(trace)] = ThirdParty(cfg["cfitsioLibs"])
          ELSE IsPrefix(trace, ExpectedHead)

\* an invocation that registered the bound list ['timeSystem'] last
C4_Witness ==
    /\ pc = "returned"
    /\ Bound
    /\ cfg["cfitsioLibs"] = <<"timeSystem">>
    /\ trace[Len(trace)] = ThirdParty(<<"timeSystem">>)

(***************************************************************************)
(* C5                                                                      *)
(***************************************************************************)
\* C5: with cfitsioLibs bound to L, an invocation in which no Tool call
\* raises returns, and its whole trace is addLibrary(['timeSystem']), the
\* four dependencies, addLibrary(L) when depsOnly is absent or falsy, and the
\* same without the first call when depsOnly is truthy; every call is
\* accepted, the third-party registration is the last one, and at no point
\* of any invocation has a call outside that trace been made.
C5_CompleteTrace ==
    Bound =>
        /\ DepsOnlyFalsy \/ DepsOnlyTruthy
        /\ DepsOnlyFalsy =>
             IsPrefix(trace, <<OwnLibrary>> \o FixedDeps
                                \o <<ThirdParty(cfg["cfitsioLibs"])>>)
        /\ DepsOnlyTruthy =>
             IsPrefix(trace, FixedDeps \o <<ThirdParty(cfg["cfitsioLibs"])>>)
        /\ (Finished /\ exc.type # "ToolError") =>
             /\ pc = "returned"
             /\ Len(trace) = (IF DepsOnlyFalsy THEN 6 ELSE 5)
             /\ registered = trace

\* the scenario of the specification with depsOnly set to a non-empty string
C5_Witness ==
    /\ pc = "returned"
    /\ kw = [depsOnly |-> [type |-> "str", n |-> 1]]
    /\ trace = FixedDeps \o <<ThirdParty(<<"cfitsio">>)>>

(***************************************************************************)
(* C6                                                                      *)
(***************************************************************************)
\* C6: every step that delivers a result of exists delivers 1, issues no
\* Tool call and leaves the environment and everything else as it was.
C6_ExistsTrue ==
    [][(result' # result /\ result'.op = "exists") =>
          /\ result'.value = [type |-> "int", n |-> 1]
          /\ UNCHANGED <<pc, kw, cfg, failing, trace, registered, exc, prev>>]_vars

\* exists answered on an environment with an empty configuration mapping
C6_Witness ==
    /\ result.op = "exists"
    /\ DOMAIN cfg = {}
    /\ pc = "idle"

(***************************************************************************)
(* C7                                                                      *)
(***************************************************************************)
\* C7: an invocation with the same options and the same configuration as
\* the one before it ends the same way with the same calls issued and
\* accepted, and what an invocation registers last is what cfitsioLibs is
\* bound to at that invocation, whatever it was bound to before.
C7_Stateless ==
    (Finished /\ prev.called) =>
        /\ (prev.kw = kw /\ prev.cfg = cfg) =>
              /\ trace = prev.trace
              /\ registered = prev.registered
              /\ exc = prev.exc
        /\ Bound =>
              /\ trace # <<>>
              /\ trace[Len(trace)] = ThirdParty(cfg["cfitsioLibs"])
              /\ Len(trace) = Len(ExpectedHead) + 1

\* a second invocation with the inputs of the first, all six calls issued
C7_Witness ==
    /\ pc = "returned"
    /\ prev.called
    /\ prev.kw = kw
    /\ prev.cfg = cfg
    /\ Len(trace) = 6
    /\ Len(prev.trace) = 6

(***************************************************************************)
(* C8                                                                      *)
(***************************************************************************)
\* C8: without the cfitsioLibs key an invocation never returns and never
\* issues the third-party registration; unless a Tool call has raised before,
\* it ends in the KeyError of the lookup at the last statement, after every
\* call that precedes it was issued and accepted, the error leaving generate
\* as it is (no statement runs after it, nothing is issued again).
C8_MissingKey ==
    ~Bound =>
        /\ pc # "returned"
        /\ result.op # "generate"
        /\ IsPrefix(trace, ExpectedHead)
        /\ Finished =>
             /\ exc.type \in {"KeyError", "ToolError"}
             /\ exc.type = "ToolError" => RaisedBeforeThirdParty
             /\ exc.type = "KeyError" =>
                  /\ exc.at = "line9"
                  /\ trace = ExpectedHead
                  /\ registered = trace

\* the lookup error with depsOnly absent
C8_Witness ==
    /\ pc = "raised"
    /\ exc.type = "KeyError"
    /\ kw = <<>>
    /\ Len(trace) = 5

C10_OnlyDepsOnly ==
    (Finished /\ prev.called) =>
        /\ ((FalsyIn(prev.kw) <=> FalsyIn(kw)) /\ prev.cfg = cfg) =>
              (trace = prev.trace /\ exc = prev.exc)
        /\ Bound => pc = "returned"

\* incsOnly passed to the second invocation only, depsOnly differing in value
C10_Witness ==
    /\ pc = "returned"
    /\ prev.called
    /\ prev.cfg = cfg
    /\ prev.kw = [depsOnly |-> [type |-> "int", n |-> 0]]
    /\ kw = [depsOnly |-> [type |-> "NoneType", n |-> 0],
             incsOnly |-> [type |-> "int", n |-> 1]]
    /\ trace = prev.trace
    /\ Len(trace) = 6

====
